---- MODULE Spec2Model ----
(***************************************************************************)
(* whisper_transcribe: the transcription pipeline (core.py), the tool      *)
(* server (server.py) and the command line front end (cli.py), modelled    *)
(* over a small file system.  Every handler is one operator that threads   *)
(* the file system through the statements of the code and records, in      *)
(* order, the externally visible steps it takes (device probe, progress    *)
(* notifications, model load, model call, directory creation, file write,  *)
(* console output).                                                        *)
(***************************************************************************)
EXTENDS Integers, Sequences, FiniteSets, TLC

VARIABLES fs, today, mps, last, tsIn, tsOut, reqs, done

vars == <<fs, today, mps, last, tsIn, tsOut, reqs, done>>

(***************************************************************************)
(* Bounds of the model.                                                    *)
(***************************************************************************)
TicksPerSecond == 2      \* resolution of segment times: 1/2 second
MaxStartSeconds == 700   \* largest start of the first of two segments
MaxRequests == 2         \* concurrent tool-server requests (SpecConc)

(***************************************************************************)
(* Python values that reach the path arguments.  A str path is an anchor   *)
(* ("root": starts with "/", "tilde": starts with "~/", "rel": relative)   *)
(* and its components; "" is the relative path with no component.          *)
(***************************************************************************)
Name(stem, ext) == [date |-> "", stem |-> stem, suffix |-> "", ext |-> ext]

Str(anchor, parts) == [kind |-> "str", anchor |-> anchor, parts |-> parts]

None == [kind |-> "none", anchor |-> "rel", parts |-> <<>>]

EmptyStr == Str("rel", <<>>)

\* a non-str, truthy argument value (e.g. the JSON number 123)
IntVal == [kind |-> "int", anchor |-> "rel", parts |-> <<Name("123", "")>>]

\* Python truthiness of an argument value: None and "" are falsy
Truthy(v) == v.kind = "int" \/ (v.kind = "str" /\ (v.anchor # "rel" \/ v.parts # <<>>))

Home == <<Name("home", "")>>

Cwd == <<Name("data", "")>>

TildeName == Name("~", "")

\* os.path.expanduser on a str: a leading "~" becomes the home directory
expanduser(p) == IF p.anchor = "tilde" THEN Str("root", Home \o p.parts) ELSE p

\* os.path.abspath, as the component list of the absolute path; without
\* expanduser a leading "~" is an ordinary directory name under the cwd
abspath(p) ==
  CASE p.anchor = "root" -> p.parts
    [] p.anchor = "tilde" -> Cwd \o <<TildeName>> \o p.parts
    [] OTHER -> Cwd \o p.parts

\* os.path.dirname of an absolute component list
dirname(a) == IF a = <<>> THEN <<>> ELSE SubSeq(a, 1, Len(a) - 1)

\* os.path.basename of a str path
basename(p) == IF p.parts = <<>> THEN Name("", "") ELSE p.parts[Len(p.parts)]

\* os.path.splitext(name)[0]
splitext0(n) == [n EXCEPT !.ext = ""]

\* os.path.splitext(name)[1].lower()
splitext1(n) == n.ext

\* f"{date_str} {file_name} Transcript.md"
TranscriptName(date_str, file_name) ==
  [date |-> date_str, stem |-> file_name.stem, suffix |-> " Transcript", ext |-> ".md"]

(***************************************************************************)
(* The file system: the set of directories and the content of each file,  *)
(* both keyed by absolute component list.                                  *)
(***************************************************************************)
Prefixes(a) == {SubSeq(a, 1, n) : n \in 0..Len(a)}

IsDir(f, a) == a \in f.dirs

IsFile(f, a) == a \in DOMAIN f.files

\* os.path.exists: "" never exists
exists(f, p) == /\ p # EmptyStr
                /\ (IsDir(f, abspath(p)) \/ IsFile(f, abspath(p)))

\* os.makedirs(d, exist_ok=True): fails when d, or a directory on the way to
\* it, is an existing file (FileExistsError or NotADirectoryError, both
\* OSError; reported here under the first name)
makedirs(f, d) ==
  IF IsDir(f, d) THEN [exc |-> "none", fs |-> f]
  ELSE IF \E q \in Prefixes(d) : IsFile(f, q) THEN [exc |-> "FileExistsError", fs |-> f]
  ELSE [exc |-> "none", fs |-> [f EXCEPT !.dirs = @ \cup Prefixes(d)]]

Truncated == [kind |-> "partial", date |-> "", source |-> Name("", ""),
              title |-> Name("", ""), duration |-> 0, language |-> "",
              device |-> "", model |-> "", body |-> <<>>]

SetFile(f, a, content) ==
  [f EXCEPT !.files = [x \in DOMAIN @ \cup {a} |-> IF x = a THEN content ELSE @[x]]]

\* variant: the file is opened with mode "x", which refuses an existing file
openwriteMutantExclusive(f, a, content, osfail) ==
  IF IsDir(f, a) THEN [exc |-> "IsADirectoryError", fs |-> f]
  ELSE IF ~IsDir(f, dirname(a)) THEN [exc |-> "FileNotFoundError", fs |-> f]
  ELSE IF IsFile(f, a) THEN [exc |-> "FileExistsError", fs |-> f]
  ELSE IF osfail = "open" THEN [exc |-> "PermissionError", fs |-> f]
  ELSE IF osfail = "write" THEN [exc |-> "OSError", fs |-> SetFile(f, a, Truncated)]
  ELSE [exc |-> "none", fs |-> SetFile(f, a, content)]

\* with open(a, "w") as fh: fh.write(content).  osfail = "open": open is
\* refused, nothing changes; osfail = "write": the file was opened (created
\* or truncated) and the write then failed (disk full).
openwrite(f, a, content, osfail) ==
  IF IsDir(f, a) THEN [exc |-> "IsADirectoryError", fs |-> f]
  ELSE IF ~IsDir(f, dirname(a)) THEN [exc |-> "FileNotFoundError", fs |-> f]
  ELSE IF osfail = "open" THEN [exc |-> "PermissionError", fs |-> f]
  ELSE IF osfail = "write" THEN [exc |-> "OSError", fs |-> SetFile(f, a, Truncated)]
  ELSE [exc |-> "none", fs |-> SetFile(f, a, content)]

(***************************************************************************)
(* core.py: registry, timestamp rendering, device selection.              *)
(***************************************************************************)
SUPPORTED_FORMATS ==
  {".mp3", ".wav", ".m4a", ".flac", ".ogg", ".wma", ".aac",
   ".mp4", ".webm", ".mkv", ".avi", ".mov"}

\* a Python list: it has items and no .keys()
AVAILABLE_MODELS ==
  [kind |-> "list",
   items |-> <<"tiny", "base", "small", "medium", "large", "large-v2", "large-v3">>]

Items(l) == {l.items[i] : i \in DOMAIN l.items}

\* Strings that are compared character by character are sequences of
\* character codes: "0".."9" are 48..57 and ":" is 58.
RECURSIVE Digits(_)
Digits(n) == IF n < 10 THEN <<48 + n>> ELSE Digits(n \div 10) \o <<48 + (n % 10)>>

\* f"{n:02d}": at least two digits, zero padded, never cut
Pad2(n) == IF n < 10 THEN <<48, 48 + n>> ELSE Digits(n)

\* variant: the seconds are rounded up instead of cut
format_timestampMutantRound(t) ==
  LET mins == t \div (60 * TicksPerSecond)
      secs == ((t % (60 * TicksPerSecond)) + TicksPerSecond - 1) \div TicksPerSecond
  IN  Pad2(mins) \o <<58>> \o Pad2(secs % 60)

\* format_timestamp on a time given in ticks (seconds = t / TicksPerSecond):
\* mins = int(seconds // 60), secs = int(seconds % 60)
format_timestamp(t) ==
  LET mins == t \div (60 * TicksPerSecond)
      secs == (t % (60 * TicksPerSecond)) \div TicksPerSecond
  IN  Pad2(mins) \o <<58>> \o Pad2(secs)

\* get_device: the probe of torch.backends.mps
get_device(mpsAvailable) == IF mpsAvailable THEN "mps" ELSE "cpu"

(***************************************************************************)
(* The external model.  whisper.load_model and model.transcribe either    *)
(* raise (fail = "load", "transcribe") or return; what the model hears in *)
(* a file is a fixed function of the file.                                 *)
(***************************************************************************)
Seg(start, end, text) == [start |-> start, end |-> end, text |-> text]

Recognize(name) ==
  IF name.stem = "meeting"
  THEN [language |-> "ru",
        segments |-> <<Seg(0, 9 * TicksPerSecond, "hello"),
                       Seg(5999 * TicksPerSecond + 1, 6000 * TicksPerSecond, "plan"),
                       Seg(6000 * TicksPerSecond, 6001 * TicksPerSecond, "bye")>>]
  ELSE IF name.stem = "memo"
  THEN [language |-> "en", segments |-> <<Seg(TicksPerSecond, 61 * TicksPerSecond, "note")>>]
  ELSE [language |-> "en", segments |-> <<>>]

NoResult == [segments |-> <<>>, language |-> "", end |-> 0, device |-> "", model |-> ""]

\* on_progress(stage, ...) when a sink was passed
Notify(sink, stage) == IF sink THEN <<"notify:" \o stage>> ELSE <<>>

Raised(exc, events) == [exc |-> exc, events |-> events, result |-> NoResult]

(***************************************************************************)
(* core.transcribe_file.  language and prompt are handed to the model     *)
(* verbatim and change no step taken here; they are not modelled.          *)
(***************************************************************************)
\* variant: "loaded" is announced before the loader is called, and the
\* model is called again when it fails
pipelineMutantEarlyLoaded(file_path, model_name, sink, mpsAvailable, fail) ==
  LET device == get_device(mpsAvailable)
      e1 == <<"probe">> \o Notify(sink, "device") \o Notify(sink, "loading")
              \o Notify(sink, "loaded") \o <<"load_model">>
      e2 == e1 \o Notify(sink, "transcribing") \o <<"model.transcribe">>
      raw == Recognize(basename(file_path))
      segments == raw.segments
  IN  IF fail = "load" THEN Raised("RuntimeError", e1)
      ELSE IF fail = "transcribe"
      THEN Raised("RuntimeError", e2 \o <<"model.transcribe">>)
      ELSE [exc |-> "none",
            events |-> e2 \o Notify(sink, "complete"),
            result |-> [segments |-> segments,
                        language |-> raw.language,
                        end |-> IF segments = <<>> THEN 0
                                ELSE segments[Len(segments)].end,
                        device |-> device,
                        model |-> model_name]]

\* transcribe_file once both checks have passed (core.py lines 82 to 134)
pipeline(file_path, model_name, sink, mpsAvailable, fail) ==
  LET device == get_device(mpsAvailable)
      e1 == <<"probe">> \o Notify(sink, "device") \o Notify(sink, "loading")
              \o <<"load_model">>
      e2 == e1 \o Notify(sink, "loaded") \o Notify(sink, "transcribing")
              \o <<"model.transcribe">>
      raw == Recognize(basename(file_path))
      segments == raw.segments
  IN  IF fail = "load" THEN Raised("RuntimeError", e1)
      ELSE IF fail = "transcribe" THEN Raised("RuntimeError", e2)
      ELSE [exc |-> "none",
            events |-> e2 \o Notify(sink, "complete"),
            result |-> [segments |-> segments,
                        language |-> raw.language,
                        end |-> IF segments = <<>> THEN 0
                                ELSE segments[Len(segments)].end,
                        device |-> device,
                        model |-> model_name]]

\* variant: the device is probed and announced before the arguments are checked
transcribe_fileMutantProbeFirst(f, file_path, model_name, sink, mpsAvailable, fail) ==
  IF ~exists(f, file_path)
  THEN Raised("FileNotFoundError", <<"probe">> \o Notify(sink, "device"))
  ELSE IF model_name \notin Items(AVAILABLE_MODELS)
  THEN Raised("ValueError", <<"probe">> \o Notify(sink, "device"))
  ELSE pipeline(file_path, model_name, sink, mpsAvailable, fail)

\* variant: the model name is left to the loader to reject
transcribe_fileMutantLateModelCheck(f, file_path, model_name, sink, mpsAvailable, fail) ==
  IF ~exists(f, file_path) THEN Raised("FileNotFoundError", <<>>)
  ELSE IF model_name \notin Items(AVAILABLE_MODELS)
  THEN [pipeline(file_path, model_name, sink, mpsAvailable, "load") EXCEPT !.exc = "ValueError"]
  ELSE pipeline(file_path, model_name, sink, mpsAvailable, fail)

transcribe_file(f, file_path, model_name, sink, mpsAvailable, fail) ==
  IF ~exists(f, file_path) THEN Raised("FileNotFoundError", <<>>)
  ELSE IF model_name \notin Items(AVAILABLE_MODELS) THEN Raised("ValueError", <<>>)
  ELSE pipeline(file_path, model_name, sink, mpsAvailable, fail)

\* f"{duration_min:.1f}" in tenths of a minute, duration_min = end / 60
DurationTenths(end) == (2 * end + 6 * TicksPerSecond) \div (12 * TicksPerSecond)

\* result_to_markdown: the front matter fields and one line per segment
result_to_markdown(result, source_filename, date_str) ==
  [kind |-> "md",
   date |-> date_str,
   source |-> source_filename,
   title |-> splitext0(source_filename),
   duration |-> DurationTenths(result.end),
   language |-> result.language,
   device |-> result.device,
   model |-> result.model,
   body |-> [i \in DOMAIN result.segments |->
              [stamp |-> format_timestamp(result.segments[i].start),
               text |-> result.segments[i].text]]]

\* the path save_transcript writes to, and the directory it creates first
TranscriptsDir(source_path) == dirname(abspath(source_path)) \o <<Name("Transcripts", "")>>

\* variant: the transcript always goes to the Transcripts directory
OutputFileMutantIgnoreOutput(source_path, output_path, date_str) ==
  Str("root", TranscriptsDir(source_path)
                \o <<TranscriptName(date_str, splitext0(basename(source_path)))>>)

OutputFile(source_path, output_path, date_str) ==
  IF Truthy(output_path) THEN output_path
  ELSE Str("root", TranscriptsDir(source_path)
                     \o <<TranscriptName(date_str, splitext0(basename(source_path)))>>)

OutputDir(source_path, output_path) ==
  IF Truthy(output_path) THEN dirname(abspath(output_path))
  ELSE TranscriptsDir(source_path)

(***************************************************************************)
(* core.save_transcript                                                    *)
(***************************************************************************)
save_transcript(f, result, source_path, output_path, date_str, osfail) ==
  IF output_path.kind = "int"
  THEN [exc |-> "TypeError", fs |-> f, ret |-> None, events |-> <<>>]
  ELSE
    LET output_file == OutputFile(source_path, output_path, date_str)
        md == makedirs(f, OutputDir(source_path, output_path))
        markdown == result_to_markdown(result, basename(source_path), date_str)
        wr == openwrite(md.fs, abspath(output_file), markdown, osfail)
    IN  IF md.exc # "none"
        THEN [exc |-> md.exc, fs |-> md.fs, ret |-> None, events |-> <<"makedirs">>]
        ELSE IF wr.exc # "none"
        THEN [exc |-> wr.exc, fs |-> wr.fs, ret |-> None,
              events |-> <<"makedirs", "open_w">>]
        ELSE [exc |-> "none", fs |-> wr.fs, ret |-> output_file,
              events |-> <<"makedirs", "open_w">>]

(***************************************************************************)
(* server.py                                                               *)
(***************************************************************************)
\* list(AVAILABLE_MODELS.keys()): only a dict has keys
Keys(l) == IF l.kind = "dict" THEN [exc |-> "none", keys |-> Items(l)]
           ELSE [exc |-> "AttributeError", keys |-> {}]

\* list_tools: the two tools and the enum of the "model" property
list_tools ==
  LET k == Keys(AVAILABLE_MODELS)
  IN  IF k.exc # "none" THEN [exc |-> k.exc, tools |-> {}, enum |-> {}]
      ELSE [exc |-> "none", tools |-> {"transcribe", "transcribe_info"}, enum |-> k.keys]

\* the rows of the "Available Models" table of the transcribe_info text
InfoModels == {"tiny", "base", "small", "medium", "large", "turbo"}

NoDoc == [kind |-> "none", date |-> "", source |-> Name("", ""),
          title |-> Name("", ""), duration |-> 0, language |-> "",
          device |-> "", model |-> "", body |-> <<>>]

NoStats == [duration |-> 0, segments |-> 0, language |-> "", device |-> ""]

\* a text response: kind "error" is the text starting with the error prefix
ErrorText(msg) ==
  [kind |-> "error", msg |-> msg, markdown |-> NoDoc, saved |-> None,
   stats |-> NoStats, models |-> {}]

InfoText ==
  [kind |-> "info", msg |-> "", markdown |-> NoDoc, saved |-> None,
   stats |-> NoStats, models |-> InfoModels]

Returned(text, f, events) ==
  [exc |-> "none", text |-> text, fs |-> f, events |-> events]

Propagated(exc, f, events) ==
  [exc |-> exc, text |-> ErrorText(""), fs |-> f, events |-> events]

\* arguments.get(key, default)
Get(v, default) == IF v = "absent" THEN default ELSE v

\* variant: the save_file argument is not looked at, the transcript is
\* always saved
call_tool_tryMutantIgnoreSaveFile(f, file_path, args, date_str, mpsAvailable, fail) ==
  LET model_name == Get(args.model, "medium")
      t == transcribe_file(f, file_path, model_name, TRUE, mpsAvailable, fail)
      markdown == result_to_markdown(t.result, basename(file_path), date_str)
      output == IF Truthy(args.output) /\ args.output.kind = "str"
                THEN expanduser(args.output) ELSE args.output
      sv == save_transcript(f, t.result, file_path, output, date_str, fail)
      stats == [duration |-> DurationTenths(t.result.end),
                segments |-> Len(t.result.segments),
                language |-> t.result.language,
                device |-> t.result.device]
  IN  IF t.exc # "none" THEN Returned(ErrorText(t.exc), f, t.events)
      ELSE IF sv.exc # "none" THEN Returned(ErrorText(sv.exc), sv.fs, t.events \o sv.events)
      ELSE Returned([kind |-> "markdown", msg |-> "", markdown |-> markdown,
                     saved |-> sv.ret, stats |-> stats, models |-> {}],
                    sv.fs, t.events \o sv.events)

\* variant: the transcript is saved whether or not the pipeline raised
call_tool_tryMutantSaveAnyway(f, file_path, args, date_str, mpsAvailable, fail) ==
  LET model_name == Get(args.model, "medium")
      save_file == Get(args.save_file, "true") = "true"
      t == transcribe_file(f, file_path, model_name, TRUE, mpsAvailable, fail)
      markdown == result_to_markdown(t.result, basename(file_path), date_str)
      output == IF Truthy(args.output) /\ args.output.kind = "str"
                THEN expanduser(args.output) ELSE args.output
      sv == save_transcript(f, t.result, file_path, output, date_str, fail)
      stats == [duration |-> DurationTenths(t.result.end),
                segments |-> Len(t.result.segments),
                language |-> t.result.language,
                device |-> t.result.device]
  IN  IF ~save_file
      THEN IF t.exc # "none" THEN Returned(ErrorText(t.exc), f, t.events)
           ELSE Returned([kind |-> "markdown", msg |-> "", markdown |-> markdown,
                          saved |-> None, stats |-> stats, models |-> {}], f, t.events)
      ELSE IF t.exc # "none" THEN Returned(ErrorText(t.exc), sv.fs, t.events \o sv.events)
      ELSE IF sv.exc # "none" THEN Returned(ErrorText(sv.exc), sv.fs, t.events \o sv.events)
      ELSE Returned([kind |-> "markdown", msg |-> "", markdown |-> markdown,
                     saved |-> sv.ret, stats |-> stats, models |-> {}],
                    sv.fs, t.events \o sv.events)

\* the try block of call_tool, entered with the expanded, existing path
call_tool_try(f, file_path, args, date_str, mpsAvailable, fail) ==
  LET model_name == Get(args.model, "medium")
      save_file == Get(args.save_file, "true") = "true"
      t == transcribe_file(f, file_path, model_name, TRUE, mpsAvailable, fail)
      markdown == result_to_markdown(t.result, basename(file_path), date_str)
      output == IF Truthy(args.output) /\ args.output.kind = "str"
                THEN expanduser(args.output) ELSE args.output
      sv == save_transcript(f, t.result, file_path, output, date_str, fail)
      stats == [duration |-> DurationTenths(t.result.end),
                segments |-> Len(t.result.segments),
                language |-> t.result.language,
                device |-> t.result.device]
  IN  IF t.exc # "none" THEN Returned(ErrorText(t.exc), f, t.events)
      ELSE IF ~save_file
      THEN Returned([kind |-> "markdown", msg |-> "", markdown |-> markdown,
                     saved |-> None, stats |-> stats, models |-> {}], f, t.events)
      ELSE IF sv.exc # "none" THEN Returned(ErrorText(sv.exc), sv.fs, t.events \o sv.events)
      ELSE Returned([kind |-> "markdown", msg |-> "", markdown |-> markdown,
                     saved |-> sv.ret, stats |-> stats, models |-> {}],
                    sv.fs, t.events \o sv.events)

call_tool(f, name, args, date_str, mpsAvailable, fail) ==
  IF name = "transcribe_info" THEN Returned(InfoText, f, <<>>)
  ELSE IF name = "transcribe"
  THEN IF ~Truthy(args.file) THEN Returned(ErrorText("file required"), f, <<>>)
       ELSE IF args.file.kind # "str" THEN Propagated("TypeError", f, <<>>)
       ELSE IF ~exists(f, expanduser(args.file))
       THEN Returned(ErrorText("File not found"), f, <<>>)
       ELSE LET r == call_tool_try(f, expanduser(args.file), args, date_str,
                                   mpsAvailable, fail)
            IN  [r EXCEPT !.events = <<"log:Transcribing">> \o @]
  ELSE Returned([ErrorText("Unknown tool") EXCEPT !.kind = "unknown"], f, <<>>)

(***************************************************************************)
(* cli.py                                                                  *)
(***************************************************************************)
cliAVAILABLE_MODELS ==
  [kind |-> "list",
   items |-> <<"tiny", "base", "small", "medium", "large", "large-v2", "large-v3">>]

\* how a run of the command ends: exit status, and the exception that left
\* transcribe() uncaught ("none" when it returned or called sys.exit)
Ended(status, exc, f, events) ==
  [status |-> status, exc |-> exc, fs |-> f, events |-> events]

\* cli.transcribe; status 0 stands for a normal return
transcribe(f, file_path, model_name, output, date_str, mpsAvailable, fail) ==
  IF ~exists(f, file_path) THEN Ended(1, "none", f, <<"print:File not found", "sys.exit">>)
  ELSE
    LET ext == splitext1(basename(file_path))
        e0 == IF ext \notin SUPPORTED_FORMATS THEN <<"print:Unknown format">> ELSE <<>>
        device == get_device(mpsAvailable)
        e1 == e0 \o <<"probe", "print:device", "task:loading", "load_model">>
        e2 == e1 \o <<"task:loaded", "task:transcribing", "model.transcribe">>
        e3 == e2 \o <<"task:complete">>
        raw == Recognize(basename(file_path))
        output_file == OutputFile(file_path, output, date_str)
        md == makedirs(f, OutputDir(file_path, output))
        end == IF raw.segments = <<>> THEN 0 ELSE raw.segments[Len(raw.segments)].end
        doc == [kind |-> "md",
                date |-> date_str,
                source |-> basename(file_path),
                title |-> splitext0(basename(file_path)),
                duration |-> DurationTenths(end),
                language |-> raw.language,
                device |-> device,
                model |-> model_name,
                body |-> [i \in DOMAIN raw.segments |->
                           [stamp |-> format_timestamp(raw.segments[i].start),
                            text |-> raw.segments[i].text]]]
        wr == openwrite(md.fs, abspath(output_file), doc, fail)
    IN  IF fail = "load" THEN Ended(1, "RuntimeError", f, e1)
        ELSE IF fail = "transcribe" THEN Ended(1, "RuntimeError", f, e2)
        ELSE IF md.exc # "none" THEN Ended(1, md.exc, md.fs, e3 \o <<"makedirs">>)
        ELSE IF wr.exc # "none" THEN Ended(1, wr.exc, wr.fs, e3 \o <<"makedirs", "open_w">>)
        ELSE Ended(0, "none", wr.fs,
                   e3 \o <<"makedirs", "open_w", "print:Saved", "print:summary">>)

\* variant: main reports an exception of transcribe() itself and returns
mainMutantSwallow(f, file_path, model_name, output, date_str, mpsAvailable, fail) ==
  IF model_name \notin Items(cliAVAILABLE_MODELS)
  THEN Ended(2, "none", f, <<"stderr:usage error", "sys.exit">>)
  ELSE LET r == transcribe(f, file_path, model_name, output, date_str, mpsAvailable, fail)
       IN  IF r.exc # "none"
           THEN [r EXCEPT !.status = 0, !.events = @ \o <<"print:Error">>]
           ELSE r

\* cli.main: argparse rejects a --model outside choices with a usage error
\* and exit status 2; an exception leaving transcribe() ends the process
\* with a traceback on stderr and exit status 1
main(f, file_path, model_name, output, date_str, mpsAvailable, fail) ==
  IF model_name \notin Items(cliAVAILABLE_MODELS)
  THEN Ended(2, "none", f, <<"stderr:usage error", "sys.exit">>)
  ELSE LET r == transcribe(f, file_path, model_name, output, date_str, mpsAvailable, fail)
       IN  IF r.exc # "none" THEN [r EXCEPT !.events = @ \o <<"stderr:traceback">>]
           ELSE r

(***************************************************************************)
(* The inputs the entry points are driven with.                            *)
(***************************************************************************)
Meeting == Name("meeting", ".webm")

Memo == Name("memo", ".m4a")

SrcRel == Str("rel", <<Meeting>>)                         \* meeting.webm, in the cwd

SrcTilde == Str("tilde", <<Memo>>)                        \* ~/memo.m4a

SrcMissing == Str("root", <<Name("data", ""), Name("missing", ".mp3")>>)

OutNew == Str("root", <<Name("out", ""), Name("new", ""), Name("r", ".md")>>)

OutUnderFile == Str("rel", <<Meeting, Name("r", ".md")>>) \* meeting.webm/r.md

OutTilde == Str("tilde", <<Name("r", ".md")>>)               \* ~/r.md

Sources == {SrcRel, SrcTilde, SrcMissing, EmptyStr}

Outputs == {None, EmptyStr, OutNew, OutUnderFile}

Models == {"medium", "turbo"}

ModelFails == {"none", "load", "transcribe"}

Fails == ModelFails \cup {"open", "write"}

Dates == {"2026-11-05"}

Original == [NoDoc EXCEPT !.kind = "original"]

Fs0 ==
  [dirs |-> {<<>>, Cwd, Home},
   files |-> [a \in {Cwd \o <<Meeting>>, Home \o <<Memo>>,
                     Cwd \o <<Name("keep", ".md")>>} |-> Original]]

NoArgs == [file |-> None, model |-> "absent", output |-> None, save_file |-> "absent"]

Idle ==
  [op |-> "idle", name |-> "", args |-> NoArgs, sink |-> FALSE, fail |-> "none",
   pre |-> Fs0, exc |-> "none", status |-> 0, text |-> ErrorText(""),
   ret |-> None, events |-> <<>>, tools |-> {}, enum |-> {}]

TypeOK ==
  /\ fs.dirs \subseteq Seq([date : STRING, stem : STRING, suffix : STRING, ext : STRING])
  /\ today \in Dates
  /\ mps \in BOOLEAN
  /\ last.op \in {"idle", "transcribe_file", "save_transcript", "call_tool",
                  "list_tools", "cli.transcribe", "cli.main"}

Init ==
  /\ fs = Fs0
  /\ today \in Dates
  /\ mps \in BOOLEAN
  /\ last = Idle
  /\ tsIn = <<0, 0>>
  /\ tsOut = <<>>
  /\ reqs = <<>>
  /\ done = <<>>

Others == <<tsIn, tsOut, reqs, done>>

\* a library caller invokes core.transcribe_file
CoreTranscribeFile ==
  /\ last.op = "idle"
  /\ \E file \in Sources, model \in Models, sink \in BOOLEAN, fail \in ModelFails :
       LET r == transcribe_file(fs, file, model, sink, mps, fail)
       IN  last' = [Idle EXCEPT !.op = "transcribe_file",
                                !.args = [NoArgs EXCEPT !.file = file, !.model = model],
                                !.sink = sink, !.fail = fail, !.pre = fs,
                                !.exc = r.exc, !.events = r.events]
  /\ UNCHANGED <<fs, today, mps, Others>>

\* a library caller invokes transcribe_file and, when it returned, save_transcript
CoreTranscribeAndSave ==
  /\ last.op = "idle"
  /\ \E file \in Sources, model \in Models, output \in Outputs, fail \in Fails :
       LET t == transcribe_file(fs, file, model, FALSE, mps, fail)
           s == save_transcript(fs, t.result, file, output, today, fail)
           a == [NoArgs EXCEPT !.file = file, !.model = model, !.output = output]
       IN  IF t.exc # "none"
           THEN /\ last' = [Idle EXCEPT !.op = "save_transcript", !.args = a,
                                        !.fail = fail, !.pre = fs, !.exc = t.exc,
                                        !.events = t.events]
                /\ fs' = fs
           ELSE /\ last' = [Idle EXCEPT !.op = "save_transcript", !.args = a,
                                        !.fail = fail, !.pre = fs, !.exc = s.exc,
                                        !.ret = s.ret, !.events = t.events \o s.events]
                /\ fs' = s.fs
  /\ UNCHANGED <<today, mps, Others>>

ToolNames == {"transcribe", "transcribe_info", "summarize"}

ToolArgs ==
  [file : Sources \cup {None, IntVal},
   model : Models \cup {"absent"},
   output : Outputs \cup {OutTilde, IntVal},
   save_file : {"absent", "true", "false"}]

\* the hosting framework dispatches a tools/call request to call_tool
CallTool ==
  /\ last.op = "idle"
  /\ \E name \in ToolNames, args \in ToolArgs, fail \in Fails :
       LET r == call_tool(fs, name, args, today, mps, fail)
       IN  /\ name # "transcribe" => (args = NoArgs /\ fail = "none")
           /\ last' = [Idle EXCEPT !.op = "call_tool", !.name = name, !.args = args,
                                   !.sink = TRUE, !.fail = fail, !.pre = fs,
                                   !.exc = r.exc, !.text = r.text, !.events = r.events]
           /\ fs' = r.fs
  /\ UNCHANGED <<today, mps, Others>>

\* the hosting framework dispatches a tools/list request to list_tools
ListTools ==
  /\ last.op = "idle"
  /\ last' = [Idle EXCEPT !.op = "list_tools", !.pre = fs, !.exc = list_tools.exc,
                           !.tools = list_tools.tools, !.enum = list_tools.enum]
  /\ UNCHANGED <<fs, today, mps, Others>>

\* cli.transcribe is called as a function
CliTranscribe ==
  /\ last.op = "idle"
  /\ \E file \in Sources, model \in Models, output \in Outputs, fail \in Fails :
       LET r == transcribe(fs, file, model, output, today, mps, fail)
       IN  /\ last' = [Idle EXCEPT !.op = "cli.transcribe",
                         !.args = [NoArgs EXCEPT !.file = file, !.model = model,
                                                 !.output = output],
                         !.fail = fail, !.pre = fs, !.exc = r.exc,
                         !.status = r.status, !.events = r.events]
           /\ fs' = r.fs
  /\ UNCHANGED <<today, mps, Others>>

\* the command is run from a shell
CliMain ==
  /\ last.op = "idle"
  /\ \E file \in Sources, model \in Models, output \in Outputs, fail \in Fails :
       LET r == main(fs, file, model, output, today, mps, fail)
       IN  /\ last' = [Idle EXCEPT !.op = "cli.main",
                         !.args = [NoArgs EXCEPT !.file = file, !.model = model,
                                                 !.output = output],
                         !.fail = fail, !.pre = fs, !.exc = r.exc,
                         !.status = r.status, !.events = r.events]
           /\ fs' = r.fs
  /\ UNCHANGED <<today, mps, Others>>

\* the outcome has been handed to the caller; the next invocation may start
Deliver ==
  /\ last.op # "idle"
  /\ last' = Idle
  /\ UNCHANGED <<fs, today, mps, Others>>

Next ==
  \/ CoreTranscribeFile
  \/ CoreTranscribeAndSave
  \/ CallTool
  \/ ListTools
  \/ CliTranscribe
  \/ CliMain
  \/ Deliver

Spec == Init /\ [][Next]_vars

(***************************************************************************)
(* Reading the record of the last invocation.                              *)
(***************************************************************************)
Has(ev, e) == \E i \in DOMAIN ev : ev[i] = e

Count(ev, e) == Cardinality({i \in DOMAIN ev : ev[i] = e})

\* the position of the first e in ev, 0 when there is none
IndexOf(ev, e) == IF Has(ev, e) THEN CHOOSE i \in DOMAIN ev :
                                       ev[i] = e /\ \A j \in 1..(i - 1) : ev[j] # e
                  ELSE 0

Stages == <<"notify:device", "notify:loading", "notify:loaded",
            "notify:transcribing", "notify:complete">>

NotifyEvents == {Stages[i] : i \in DOMAIN Stages}

IsNotify(e) == e \in NotifyEvents

\* device probe, progress reporting, model load and model call
WorkEvents ==
  NotifyEvents \cup {"probe", "print:device", "load_model", "model.transcribe",
                     "task:loading", "task:loaded", "task:transcribing", "task:complete"}

NoWork(ev) == \A i \in DOMAIN ev : ev[i] \notin WorkEvents

IsToolTranscribe(l) ==
  l.op = "call_tool" /\ l.name = "transcribe" /\ l.args.file.kind = "str"

\* the source path as the entry point looks it up: the tool server expands "~"
SourcePath(l) == IF l.op = "call_tool" THEN expanduser(l.args.file) ELSE l.args.file

\* C1: in transcribe_file, in the tool server's transcribe operation and in
\* the CLI transcribe function, a source path that does not exist gives the
\* not-found outcome (FileNotFoundError, an error text, exit status 1) with
\* no device probe, no progress notification and no model load before it,
\* and the file system is left as it was: no file, no directory is created.
C1_NotFoundFailsFirst ==
  ((\/ last.op \in {"transcribe_file", "save_transcript", "cli.transcribe"}
    \/ IsToolTranscribe(last))
   /\ ~exists(last.pre, SourcePath(last)))
  => /\ last.op \in {"transcribe_file", "save_transcript"}
          => last.exc = "FileNotFoundError"
     /\ last.op = "call_tool" => (last.exc = "none" /\ last.text.kind = "error")
     /\ last.op = "cli.transcribe"
          => (last.status = 1 /\ Has(last.events, "print:File not found"))
     /\ NoWork(last.events)
     /\ fs = last.pre

C1_Witness ==
  /\ last.op = "call_tool"
  /\ last.name = "transcribe"
  /\ last.args.file = SrcMissing
  /\ last.args.output = OutNew
  /\ last.fail = "load"
  /\ last.text.msg = "File not found"
  /\ fs = last.pre

GivesModel(l) ==
  \/ l.op \in {"transcribe_file", "save_transcript", "cli.main"}
  \/ (IsToolTranscribe(l) /\ l.args.model # "absent")

\* C2: with an existing source file and a model name outside the known
\* set, transcribe_file (called directly or through the tool server) and
\* the CLI main entry point fail with the invalid-model outcome, and no
\* device probe, progress notification or model load has happened.
C2_InvalidModelFailsFirst ==
  (/\ GivesModel(last)
   /\ exists(last.pre, SourcePath(last))
   /\ last.args.model \notin Items(AVAILABLE_MODELS))
  => /\ last.op \in {"transcribe_file", "save_transcript"} => last.exc = "ValueError"
     /\ last.op = "call_tool"
          => (last.exc = "none" /\ last.text.kind = "error"
              /\ last.text.msg = "ValueError")
     /\ last.op = "cli.main"
          => (last.status = 2 /\ Has(last.events, "stderr:usage error"))
     /\ NoWork(last.events)
     /\ ~Has(last.events, "notify:loading")

C2_Witness ==
  /\ last.op = "call_tool"
  /\ last.name = "transcribe"
  /\ last.args.file = SrcTilde
  /\ last.args.model = "turbo"
  /\ last.text.msg = "ValueError"
  /\ last.events = <<"log:Transcribing">>

IsPrefix(s, t) == Len(s) <= Len(t) /\ s = SubSeq(t, 1, Len(s))

Between(ev, a, x, b) ==
  /\ Count(ev, x) = 1
  /\ IndexOf(ev, a) < IndexOf(ev, x)
  /\ IndexOf(ev, x) < IndexOf(ev, b)

\* C3: a transcribe_file call with a progress sink that succeeds delivers
\* exactly device, loading, loaded, transcribing, complete, in this order;
\* the model is loaded once, between loading and loaded, and called once,
\* between transcribing and complete.  A call that fails delivers a prefix
\* of the five, without loaded after a failed load and without complete
\* after a failed transcription.
C3_ProgressOrder ==
  (last.op = "transcribe_file" /\ last.sink)
  => LET n == SelectSeq(last.events, IsNotify)
     IN  /\ last.exc = "none"
              => /\ n = Stages
                 /\ Between(last.events, "notify:loading", "load_model", "notify:loaded")
                 /\ Between(last.events, "notify:transcribing", "model.transcribe",
                            "notify:complete")
         /\ last.exc # "none"
              => /\ IsPrefix(n, Stages)
                 /\ Count(last.events, "load_model") <= 1
                 /\ Count(last.events, "model.transcribe") <= 1
                 /\ (Has(last.events, "load_model") /\ last.fail = "load")
                      => ~Has(last.events, "notify:loaded")
                 /\ Has(last.events, "model.transcribe")
                      => ~Has(last.events, "notify:complete")

C3_Witness ==
  /\ last.op = "transcribe_file"
  /\ last.sink
  /\ last.exc = "none"
  /\ Len(last.events) = 8
  /\ last.events[4] = "load_model"

WritesOutput(l) == l.op \in {"call_tool", "cli.transcribe", "cli.main", "save_transcript"}

\* C4: in the tool server, the CLI and transcribe_file followed by
\* save_transcript, when the model load or the model call raises the file
\* system is left as it was, and a file is only ever opened for writing
\* after the model call has returned.
C4_NoOutputAfterFailure ==
  WritesOutput(last)
  => /\ last.fail \in {"load", "transcribe"}
          => (fs = last.pre /\ ~Has(last.events, "open_w")
              /\ ~Has(last.events, "makedirs"))
     /\ (Has(last.events, "open_w") \/ fs # last.pre)
          => /\ Has(last.events, "model.transcribe")
             /\ IndexOf(last.events, "model.transcribe") < IndexOf(last.events, "makedirs")
             /\ last.fail \notin {"load", "transcribe"}

C4_Witness ==
  /\ last.op = "call_tool"
  /\ last.args.file = SrcRel
  /\ last.args.output = OutNew
  /\ last.fail = "transcribe"
  /\ Has(last.events, "model.transcribe")
  /\ last.text.msg = "RuntimeError"
  /\ fs = last.pre

\* C5: call_tool raises nothing, whatever the tool name and the arguments:
\* it returns a text response, and a request that fails (no usable file, an
\* unknown model, a model failure, a failure while saving) returns the text
\* with the error prefix.
C5_CallToolNeverRaises ==
  last.op = "call_tool"
  => /\ last.exc = "none"
     /\ (last.name = "transcribe"
         /\ (\/ last.args.file.kind # "str"
             \/ ~exists(last.pre, SourcePath(last))
             \/ Get(last.args.model, "medium") \notin Items(AVAILABLE_MODELS)
             \/ last.fail \in {"load", "transcribe"}))
          => last.text.kind = "error"

\* the directory the output goes to cannot be created: a file is in the way
SaveBlocked(l) ==
  /\ Truthy(l.args.output)
  /\ \E q \in Prefixes(dirname(abspath(l.args.output))) : IsFile(l.pre, q)

CliInvalidModel(l) == l.args.model \notin Items(AVAILABLE_MODELS)

CliNotFound(l) == ~CliInvalidModel(l) /\ ~exists(l.pre, l.args.file)

CliGeneric(l) ==
  /\ ~CliInvalidModel(l)
  /\ exists(l.pre, l.args.file)
  /\ (l.fail # "none" \/ SaveBlocked(l))

\* C6: a run of the command that fails (source missing, model name not
\* recognised, the model raising in load or inference, a file system error
\* while saving) ends with a non-zero exit status and an error rendering,
\* never with "Saved"; the three kinds end differently: not-found with the
\* File-not-found line and status 1, invalid-model with the usage error and
\* status 2, any other failure with the traceback and status 1.
C6_CliFailuresExitNonZero ==
  last.op = "cli.main"
  => /\ CliInvalidModel(last)
          => /\ last.status = 2
             /\ Has(last.events, "stderr:usage error")
             /\ ~Has(last.events, "print:File not found")
             /\ ~Has(last.events, "stderr:traceback")
     /\ CliNotFound(last)
          => /\ last.status = 1
             /\ Has(last.events, "print:File not found")
             /\ ~Has(last.events, "stderr:usage error")
             /\ ~Has(last.events, "stderr:traceback")
     /\ CliGeneric(last)
          => /\ last.status = 1
             /\ Has(last.events, "stderr:traceback")
             /\ ~Has(last.events, "print:File not found")
             /\ ~Has(last.events, "stderr:usage error")
     /\ (CliInvalidModel(last) \/ CliNotFound(last) \/ CliGeneric(last))
          => (last.status # 0 /\ ~Has(last.events, "print:Saved"))
     /\ (last.status = 0 /\ Has(last.events, "print:Saved"))
          \/ CliInvalidModel(last) \/ CliNotFound(last) \/ CliGeneric(last)

C6_Witness ==
  /\ last.op = "cli.main"
  /\ last.args.file = SrcRel
  /\ last.args.model = "medium"
  /\ last.fail = "write"
  /\ last.status = 1
  /\ Has(last.events, "stderr:traceback")
  /\ Has(last.events, "open_w")

\* the path C7 names: output_path when one is given ("" counts as not
\* given), otherwise <dir of source>/Transcripts/<date> <base> Transcript.md
C7_Target(l) ==
  IF l.args.output # None /\ l.args.output # EmptyStr THEN l.args.output
  ELSE Str("root",
           dirname(abspath(l.args.file))
             \o <<Name("Transcripts", "")>>
             \o <<[date |-> today, stem |-> basename(l.args.file).stem,
                   suffix |-> " Transcript", ext |-> ".md"]>>)

\* C7: save_transcript changes no file but the one at the named path;
\* every other file that was there is still there with its content, and
\* the only directories added are those leading to that path.  When it
\* returns, it returns that path, and the file holds the transcript of the
\* source.
C7_SaveTouchesOneFile ==
  last.op = "save_transcript"
  => LET t == abspath(C7_Target(last))
     IN  /\ \A a \in DOMAIN last.pre.files \ {t} :
                a \in DOMAIN fs.files /\ fs.files[a] = last.pre.files[a]
         /\ DOMAIN fs.files \subseteq DOMAIN last.pre.files \cup {t}
         /\ last.pre.dirs \subseteq fs.dirs
         /\ fs.dirs \ last.pre.dirs \subseteq Prefixes(dirname(t))
         /\ (last.exc = "none")
              => /\ last.ret = C7_Target(last)
                 /\ t \in DOMAIN fs.files
                 /\ fs.files[t].kind = "md"
                 /\ fs.files[t].source = basename(last.args.file)
                 /\ fs.files[t].date = today

\* a save to an explicit output path that holds a file of an earlier save,
\* with a transcript of yet another save present: the first is overwritten
C7_Witness ==
  /\ last.op = "save_transcript"
  /\ last.exc = "none"
  /\ last.args.file = SrcRel
  /\ last.args.output = OutNew
  /\ last.ret = OutNew
  /\ abspath(OutNew) \in DOMAIN last.pre.files
  /\ fs.files[abspath(OutNew)] # last.pre.files[abspath(OutNew)]
  /\ Cardinality(DOMAIN last.pre.files) = 5

\* C10: the tool listing succeeds and returns transcribe and
\* transcribe_info; the model names it advertises, and those the
\* transcribe_info text advertises, are exactly the known-model set of
\* transcribe_file; a transcribe request naming an advertised model is not
\* rejected as an invalid model.
C10_AdvertisedModelsAreKnown ==
  /\ last.op = "list_tools"
       => /\ last.exc = "none"
          /\ last.tools = {"transcribe", "transcribe_info"}
          /\ last.enum = Items(AVAILABLE_MODELS)
  /\ (last.op = "call_tool" /\ last.name = "transcribe_info")
       => last.text.models = Items(AVAILABLE_MODELS)
  /\ (IsToolTranscribe(last) /\ exists(last.pre, SourcePath(last))
      /\ last.args.model \in InfoModels)
       => last.text.msg # "ValueError"

\* the path a transcribe request saves to: the output argument with "~"
\* expanded when there is one, otherwise the Transcripts directory next to
\* the (expanded) source
C11_Resolved(l) ==
  IF l.args.output # None /\ l.args.output # EmptyStr
  THEN expanduser(l.args.output)
  ELSE Str("root",
           dirname(abspath(expanduser(l.args.file)))
             \o <<Name("Transcripts", "")>>
             \o <<[date |-> today, stem |-> basename(l.args.file).stem,
                   suffix |-> " Transcript", ext |-> ".md"]>>)

\* C11: a transcribe request of the tool server that succeeds with
\* save_file = false leaves the file system as it was (no file written, no
\* directory created, also when an output path is given) and still returns
\* the Markdown and the stats footer; with save_file absent it is handled
\* as with save_file = true: one save, made after the model call returned,
\* to the resolved path, which then holds the returned Markdown, every
\* other file being left alone.
C11_SaveFileFlag ==
  (IsToolTranscribe(last) /\ last.text.kind = "markdown")
  => /\ last.text.markdown.kind = "md"
     /\ last.text.stats.segments = Len(last.text.markdown.body)
     /\ last.args.save_file = "false"
          => /\ fs = last.pre
             /\ ~Has(last.events, "makedirs")
             /\ ~Has(last.events, "open_w")
             /\ last.text.saved = None
     /\ last.args.save_file = "absent"
          => LET t == abspath(C11_Resolved(last))
                 asTrue == call_tool(last.pre, "transcribe",
                                     [last.args EXCEPT !.save_file = "true"],
                                     today, mps, last.fail)
             IN  /\ Count(last.events, "makedirs") = 1
                 /\ Count(last.events, "open_w") = 1
                 /\ IndexOf(last.events, "model.transcribe")
                      < IndexOf(last.events, "makedirs")
                 /\ IndexOf(last.events, "makedirs") < IndexOf(last.events, "open_w")
                 /\ last.text.saved = C11_Resolved(last)
                 /\ t \in DOMAIN fs.files
                 /\ fs.files[t] = last.text.markdown
                 /\ \A a \in DOMAIN last.pre.files \ {t} :
                      a \in DOMAIN fs.files /\ fs.files[a] = last.pre.files[a]
                 /\ DOMAIN fs.files \subseteq DOMAIN last.pre.files \cup {t}
                 /\ last.text = asTrue.text
                 /\ fs = asTrue.fs

\* save_file = false with an output path whose directories do not exist
C11_Witness ==
  /\ IsToolTranscribe(last)
  /\ last.args.file = SrcTilde
  /\ last.args.output = OutNew
  /\ last.fail = "write"
  /\ last.args.save_file = "false"
  /\ last.text.kind = "markdown"
  /\ last.text.stats.segments = 1
  /\ ~IsDir(fs, dirname(abspath(OutNew)))
  /\ fs = last.pre

(***************************************************************************)
(* Timestamp rendering on its own: two segments with starts a <= b go     *)
(* through result_to_markdown.                                             *)
(***************************************************************************)
\* b - a, in ticks: nothing, one tick, a second, about a minute, ten
\* minutes, ninety minutes
Gaps == {0, 1, TicksPerSecond, 59 * TicksPerSecond, 60 * TicksPerSecond,
         600 * TicksPerSecond, 5400 * TicksPerSecond}

FsEmpty == [dirs |-> {<<>>}, files |-> <<>>]

InitTs ==
  /\ tsIn \in {<<a, a + d>> : a \in 0..(MaxStartSeconds * TicksPerSecond), d \in Gaps}
  /\ tsOut = <<>>
  /\ fs = FsEmpty
  /\ today \in Dates
  /\ mps = FALSE
  /\ last = Idle
  /\ reqs = <<>>
  /\ done = <<>>

RenderSegments ==
  /\ tsOut = <<>>
  /\ LET result == [NoResult EXCEPT
                      !.segments = <<Seg(tsIn[1], tsIn[1], "a"), Seg(tsIn[2], tsIn[2], "b")>>,
                      !.end = tsIn[2]]
         doc == result_to_markdown(result, Meeting, today)
     IN  tsOut' = <<doc.body[1].stamp, doc.body[2].stamp>>
  /\ UNCHANGED <<fs, today, mps, last, tsIn, reqs, done>>

NextTs == RenderSegments

SpecTs == InitTs /\ [][NextTs]_vars

\* s <= t as Python compares str: by the first character that differs, a
\* proper prefix being smaller
LexLeq(s, t) ==
  \E k \in 0..Len(s) :
    /\ k <= Len(t)
    /\ SubSeq(s, 1, k) = SubSeq(t, 1, k)
    /\ (k = Len(s) \/ (k < Len(t) /\ s[k + 1] < t[k + 1]))

\* s <= t by length first, then as strings
ShortLexLeq(s, t) == Len(s) < Len(t) \/ (Len(s) = Len(t) /\ LexLeq(s, t))

\* C8 as stated: for starts a <= b the rendered strings are in order
C8_RenderedStringsMonotonic ==
  tsOut # <<>> => LexLeq(tsOut[1], tsOut[2])

\* C8, amended: the rendered strings are in order as long as b is below 100
\* minutes; in general they are in order by length and then by text (that
\* is, as minutes and seconds), the minutes taking three digits from 100
\* minutes on.
C8_MonotonicBelow100Minutes ==
  tsOut # <<>>
  => /\ ShortLexLeq(tsOut[1], tsOut[2])
     /\ tsIn[2] < 6000 * TicksPerSecond => LexLeq(tsOut[1], tsOut[2])

C8_Witness ==
  /\ tsOut # <<>>
  /\ tsIn[1] < tsIn[2]
  /\ tsIn[1] % TicksPerSecond # 0
  /\ tsIn[2] >= 6000 * TicksPerSecond
  /\ Len(tsOut[1]) = 5
  /\ Len(tsOut[2]) = 6

(***************************************************************************)
(* The tool server under concurrent requests.  call_tool is a coroutine   *)
(* without an await: once the event loop starts it for a request it runs  *)
(* to its return, so the requests in flight are handled one at a time, in *)
(* any order.                                                              *)
(***************************************************************************)
ConcArgs ==
  [file : {SrcRel, SrcTilde},
   model : {"absent", "turbo"},
   output : {None, OutNew},
   save_file : {"absent"}]

ConcFails == {"none", "write"}

InitConc ==
  /\ reqs \in [1..MaxRequests -> [args : ConcArgs, fail : ConcFails]]
  /\ done = <<>>
  /\ fs = Fs0
  /\ today \in Dates
  /\ mps = TRUE
  /\ last = Idle
  /\ tsIn = <<0, 0>>
  /\ tsOut = <<>>

Handled == {done[k].id : k \in DOMAIN done}

\* the event loop runs call_tool for request i
HandleRequest(i) ==
  /\ i \notin Handled
  /\ LET r == call_tool(fs, "transcribe", reqs[i].args, today, mps, reqs[i].fail)
     IN  /\ fs' = r.fs
         /\ done' = Append(done, [id |-> i, exc |-> r.exc, text |-> r.text])
  /\ UNCHANGED <<today, mps, last, tsIn, tsOut, reqs>>

NextConc == \E i \in DOMAIN reqs : HandleRequest(i)

SpecConc == InitConc /\ [][NextConc]_vars

\* request i, run alone on the file system the requests started from
Alone(i) == call_tool(Fs0, "transcribe", reqs[i].args, today, mps, reqs[i].fail)

\* the files request i writes when it runs alone
Writes(i) ==
  {a \in DOMAIN Alone(i).fs.files :
     a \notin DOMAIN Fs0.files \/ Alone(i).fs.files[a] # Fs0.files[a]}

\* C9 as stated: the response of every handled request, and the content of
\* the file it saved, are those of the request run alone
C9_RequestsIndependent ==
  \A k \in DOMAIN done :
    /\ done[k].exc = Alone(done[k].id).exc
    /\ done[k].text = Alone(done[k].id).text
    /\ \A a \in Writes(done[k].id) :
         a \in DOMAIN fs.files /\ fs.files[a] = Alone(done[k].id).fs.files[a]

\* C9, amended: the response of every handled request is that of the
\* request run alone; the file it saved holds what it would hold had the
\* request run alone unless a request handled later saved to the same
\* path, in which case the file holds what the last of them wrote; no other
\* file changes.
C9_LastSaveWins ==
  /\ \A k \in DOMAIN done :
       /\ done[k].exc = Alone(done[k].id).exc
       /\ done[k].text = Alone(done[k].id).text
       /\ \A a \in Writes(done[k].id) :
            (\A j \in DOMAIN done : j > k => a \notin Writes(done[j].id))
              => (a \in DOMAIN fs.files /\ fs.files[a] = Alone(done[k].id).fs.files[a])
  /\ \A a \in DOMAIN fs.files :
       (a \notin DOMAIN Fs0.files \/ fs.files[a] # Fs0.files[a])
         => \E k \in DOMAIN done : a \in Writes(done[k].id)
  /\ \A a \in DOMAIN Fs0.files : a \in DOMAIN fs.files

\* two requests with different sources saved to the same output path
C9_Witness ==
  /\ Len(done) = 2
  /\ reqs[done[1].id].args.file # reqs[done[2].id].args.file
  /\ reqs[done[1].id].args.output = OutNew
  /\ reqs[done[2].id].args.output = OutNew
  /\ done[1].text.kind = "markdown"
  /\ done[2].text.kind = "markdown"
  /\ fs.files[abspath(OutNew)] = done[2].text.markdown

====
